---------------------------- MODULE Spec2Model ----------------------------
(***************************************************************************)
(* Model of scripts/generate_plan.py: the reservation grouping, the event  *)
(* classifier and the per-day allocator of generate_plan.                  *)
(*                                                                         *)
(* A Python str is modelled as a sequence of one-character strings, so     *)
(* that lower(), "in", split(), strip() and the regular expressions of the *)
(* source are computed character by character.                             *)
(***************************************************************************)
EXTENDS Integers, Sequences, FiniteSets, TLC

\* ------------------------------------------------------------------------
\* Strings
\* ------------------------------------------------------------------------

UpperChars == <<"A", "B", "C", "D", "E", "F", "G", "H", "I", "J", "K", "L", "M", "N", "O", "P", "Q", "R", "S", "T", "U", "V", "W", "X", "Y", "Z">>

LowerChars == <<"a", "b", "c", "d", "e", "f", "g", "h", "i", "j", "k", "l", "m", "n", "o", "p", "q", "r", "s", "t", "u", "v", "w", "x", "y", "z">>

DigitChars == <<"0", "1", "2", "3", "4", "5", "6", "7", "8", "9">>

\* \s of the re module, for the characters the inputs use
Whitespace == {" ", "\t", "\n"}

\* None as returned for the date of a failed match: a date is a triple, so
\* the empty tuple is no date
None == << >>

LowerChar(c) ==
    IF \E i \in 1..26 : UpperChars[i] = c
    THEN LowerChars[CHOOSE i \in 1..26 : UpperChars[i] = c]
    ELSE c

\* str.lower()
lower(s) == [i \in 1..Len(s) |-> LowerChar(s[i])]

\* Python's "sub in s"
Contains(sub, s) ==
    \E i \in 0..(Len(s) - Len(sub)) : SubSeq(s, i + 1, i + Len(sub)) = sub

\* re.search of an alternation of literals, given as the set of its branches
re_search(alts, s) == \E a \in alts : Contains(a, s)

\* re.search(..., re.I) of an alternation of lower-case literals
re_search_I(alts, s) == re_search(alts, lower(s))

IsDigit(c) == \E i \in 1..10 : DigitChars[i] = c

DigitVal(c) == (CHOOSE i \in 1..10 : DigitChars[i] = c) - 1

\* int() of a string of decimal digits
RECURSIVE int(_)
int(s) ==
    IF Len(s) = 0 THEN 0
    ELSE 10 * int(SubSeq(s, 1, Len(s) - 1)) + DigitVal(s[Len(s)])

\* str() of a natural number
RECURSIVE str(_)
str(n) ==
    IF n < 10 THEN <<DigitChars[n + 1]>>
    ELSE str(n \div 10) \o <<DigitChars[(n % 10) + 1]>>

\* format(n, "0<w>d"): zero padding on the left up to width w
RECURSIVE zfill(_, _)
zfill(s, w) == IF Len(s) >= w THEN s ELSE zfill(<<"0">> \o s, w)

\* the number of digits at s[pos..], at most max of them (greedy \d{1,max})
RECURSIVE DigitRun(_, _, _)
DigitRun(s, pos, max) ==
    IF max = 0 \/ pos > Len(s) \/ ~IsDigit(s[pos]) THEN 0
    ELSE 1 + DigitRun(s, pos + 1, max - 1)

\* the first position at or after pos that holds no whitespace (greedy \s*)
RECURSIVE SkipSpace(_, _)
SkipSpace(s, pos) ==
    IF pos <= Len(s) /\ s[pos] \in Whitespace THEN SkipSpace(s, pos + 1) ELSE pos

\* str.strip()
RECURSIVE strip(_)
strip(s) ==
    IF Len(s) = 0 THEN s
    ELSE IF s[1] \in Whitespace THEN strip(Tail(s))
    ELSE IF s[Len(s)] \in Whitespace THEN strip(SubSeq(s, 1, Len(s) - 1))
    ELSE s

\* s.split(sep)[-1] for a one-character separator: what follows the last sep
LastSegment(s, sep) ==
    LET idx == {i \in 1..Len(s) : s[i] = sep}
    IN  IF idx = {} THEN s
        ELSE SubSeq(s, (CHOOSE i \in idx : \A j \in idx : j <= i) + 1, Len(s))

\* dict.get(key, default)
get(dict, key, default) == IF key \in DOMAIN dict THEN dict[key] ELSE default

\* ------------------------------------------------------------------------
\* datetime.date, modelled as <<year, month, day>>
\* ------------------------------------------------------------------------

IsLeap(y) == (y % 4 = 0) /\ ((y % 100 # 0) \/ (y % 400 = 0))

DaysInMonth(y, m) ==
    IF m = 2 THEN (IF IsLeap(y) THEN 29 ELSE 28)
    ELSE IF m \in {4, 6, 9, 11} THEN 30
    ELSE 31

\* datetime.date(year, month, day) raises ValueError unless this holds
ValidDate(y, m, d) ==
    /\ y \in 1..9999
    /\ m \in 1..12
    /\ d \in 1..DaysInMonth(y, m)

\* d + datetime.timedelta(days=1)
PlusOneDay(d) ==
    IF d[3] < DaysInMonth(d[1], d[2]) THEN <<d[1], d[2], d[3] + 1>>
    ELSE IF d[2] < 12 THEN <<d[1], d[2] + 1, 1>>
    ELSE <<d[1] + 1, 1, 1>>

\* mutant of DateLeq: the loop test written d < end_date
DateLeq_Strict(d1, d2) ==
    \/ d1[1] < d2[1]
    \/ d1[1] = d2[1] /\ d1[2] < d2[2]
    \/ d1[1] = d2[1] /\ d1[2] = d2[2] /\ d1[3] < d2[3]

\* d1 <= d2 of two dates
DateLeq(d1, d2) ==
    \/ d1[1] < d2[1]
    \/ d1[1] = d2[1] /\ d1[2] < d2[2]
    \/ d1[1] = d2[1] /\ d1[2] = d2[2] /\ d1[3] <= d2[3]

\* date.isoformat(): YYYY-MM-DD
isoformat(d) ==
    zfill(str(d[1]), 4) \o <<"-">> \o zfill(str(d[2]), 2) \o <<"-">> \o zfill(str(d[3]), 2)

start_date == <<2026, 1, 12>>

end_date == <<2026, 2, 15>>

\* ------------------------------------------------------------------------
\* Parsers of the reservation fields
\* ------------------------------------------------------------------------

\* A regular expression is matched left to right on a match state: whether
\* the match still stands, the next position, and the groups captured.
MatchStart == [ok |-> TRUE, pos |-> 1, groups |-> << >>]

MatchFail == [ok |-> FALSE, pos |-> 0, groups |-> << >>]

\* (\d{min,max}), greedy
MatchDigits(s, m, min, max) ==
    IF ~m.ok \/ DigitRun(s, m.pos, max) < min THEN MatchFail
    ELSE [ok     |-> TRUE,
          pos    |-> m.pos + DigitRun(s, m.pos, max),
          groups |-> Append(m.groups,
                            SubSeq(s, m.pos, m.pos + DigitRun(s, m.pos, max) - 1))]

\* one literal character
MatchChar(s, m, c) ==
    IF m.ok /\ m.pos <= Len(s) /\ s[m.pos] = c
    THEN [m EXCEPT !.pos = @ + 1]
    ELSE MatchFail

\* an optional literal character (c?)
MatchOptChar(s, m, c) ==
    IF m.ok /\ m.pos <= Len(s) /\ s[m.pos] = c
    THEN [m EXCEPT !.pos = @ + 1]
    ELSE m

\* \s*
MatchSpaces(s, m) ==
    IF m.ok THEN [m EXCEPT !.pos = SkipSpace(s, @)] ELSE m

\* \s*(AM|PM)? under re.I: the group is << >> (None) when it takes no part
MatchOptAmPm(s, m) ==
    IF ~m.ok THEN m
    ELSE IF SkipSpace(s, m.pos) + 1 <= Len(s)
            /\ lower(SubSeq(s, SkipSpace(s, m.pos), SkipSpace(s, m.pos) + 1))
                   \in {<<"a", "m">>, <<"p", "m">>}
         THEN [ok     |-> TRUE,
               pos    |-> SkipSpace(s, m.pos) + 2,
               groups |-> Append(m.groups,
                                 SubSeq(s, SkipSpace(s, m.pos), SkipSpace(s, m.pos) + 1))]
         ELSE [m EXCEPT !.groups = Append(@, << >>)]

\* re.match(r"(\d{1,2})/(\d{1,2})/(\d{4}),?\s*(\d{1,2}):(\d{2})\s*(AM|PM)?",
\*          s, re.I).
\* Every quantifier is followed by a character it cannot itself match, so
\* the greedy match is the only one.
MatchDateTime(s) ==
    MatchOptAmPm(s,
      MatchDigits(s,
        MatchChar(s,
          MatchDigits(s,
            MatchSpaces(s,
              MatchOptChar(s,
                MatchDigits(s,
                  MatchChar(s,
                    MatchDigits(s,
                      MatchChar(s,
                        MatchDigits(s, MatchStart, 1, 2),
                      "/"), 1, 2),
                  "/"), 4, 4),
              ",")),
          1, 2),
        ":"), 2, 2))

\* the fields of the match: month, day, year, hour, minute, ampm
DateTimeFields(g) ==
    [month |-> int(g[1]), day |-> int(g[2]), year |-> int(g[3]),
     hour |-> int(g[4]), minute |-> int(g[5]), ampm |-> lower(g[6])]

\* parse_reservation_datetime raises ValueError (datetime.date) on this input
DateTimeRaises(dt_str) ==
    /\ MatchDateTime(dt_str).ok
    /\ LET f == DateTimeFields(MatchDateTime(dt_str).groups)
       IN  ~ValidDate(f.year, f.month, f.day)

\* hour after the AM/PM adjustment
AdjustHour(hour, ampm) ==
    IF ampm = <<"p", "m">> /\ hour < 12 THEN hour + 12
    ELSE IF ampm = <<"a", "m">> /\ hour = 12 THEN 0
    ELSE hour

\* parse_reservation_datetime: (dt, time_str, hour, minute), for an input on
\* which it does not raise
parse_reservation_datetime(dt_str) ==
    IF ~MatchDateTime(dt_str).ok
    THEN [dt |-> None, time_str |-> None, hour |-> None, minute |-> None]
    ELSE LET f == DateTimeFields(MatchDateTime(dt_str).groups)
         IN  [dt       |-> <<f.year, f.month, f.day>>,
              time_str |-> zfill(str(AdjustHour(f.hour, f.ampm)), 2) \o <<":">>
                               \o zfill(str(f.minute), 2),
              hour     |-> AdjustHour(f.hour, f.ampm),
              minute   |-> f.minute]

\* the first maximal run of digits of s, or << >> when s holds no digit
\* (re.search(r"(\d+)", s))
FirstDigits(s) ==
    LET idx == {i \in 1..Len(s) : IsDigit(s[i])}
    IN  IF idx = {} THEN << >>
        ELSE LET first == CHOOSE i \in idx : \A j \in idx : i <= j
             IN  SubSeq(s, first, first + DigitRun(s, first, Len(s)) - 1)

\* parse_duration
parse_duration(length_str) ==
    IF FirstDigits(length_str) = << >> THEN 60 ELSE int(FirstDigits(length_str))

\* ------------------------------------------------------------------------
\* parse_rules: the daily cap of the rules document
\* ------------------------------------------------------------------------

\* a file that is missing, and a file with its text
MissingFile == [exists |-> FALSE]

FileOf(text) == [exists |-> TRUE, text |-> text]

\* path.read_text(encoding="utf-8") if path.exists() else ""
read_text_or_empty(file) == IF file.exists THEN file.text ELSE << >>

\* mutant of IsDailyAt: re.I left out
IsDailyAt_CaseSensitive(text, i) ==
    i + 4 <= Len(text) /\ SubSeq(text, i, i + 4) = <<"D", "a", "i", "l", "y">>

\* "Daily" stands at text[i..i+4], in any letter case (re.I)
IsDailyAt(text, i) ==
    i + 4 <= Len(text) /\ lower(SubSeq(text, i, i + 4)) = <<"d", "a", "i", "l", "y">>

\* the end of .*? started at position p: the first position at or after p
\* that holds a digit, a line break (which "." does not match) or nothing
RECURSIVE LazyDotStop(_, _)
LazyDotStop(text, p) ==
    IF p > Len(text) \/ IsDigit(text[p]) \/ text[p] = "\n" THEN p
    ELSE LazyDotStop(text, p + 1)

\* Daily.*?(\d{1,3}) matches with "Daily" at i
DailyMatchesAt(text, i) ==
    /\ IsDailyAt(text, i)
    /\ LazyDotStop(text, i + 5) <= Len(text)
    /\ IsDigit(text[LazyDotStop(text, i + 5)])

\* re.search(r"Daily.*?(\d{1,3})", text, re.I): group 1 of the leftmost
\* match, or << >> when there is none
SearchDaily(text) ==
    LET at == {i \in 1..Len(text) : DailyMatchesAt(text, i)}
    IN  IF at = {} THEN << >>
        ELSE LET i == CHOOSE x \in at : \A y \in at : x <= y
                 j == LazyDotStop(text, i + 5)
             IN  SubSeq(text, j, j + DigitRun(text, j, 3) - 1)

\* re.search(r"(\d{1,3})", text): group 1, or << >> when text has no digit
SearchNumber(text) ==
    LET at == {i \in 1..Len(text) : IsDigit(text[i])}
    IN  IF at = {} THEN << >>
        ELSE LET j == CHOOSE x \in at : \A y \in at : x <= y
             IN  SubSeq(text, j, j + DigitRun(text, j, 3) - 1)

DefaultCap == 18

parse_rules(file) ==
    LET text == read_text_or_empty(file)
    IN  IF SearchDaily(text) # << >> THEN int(SearchDaily(text))
        ELSE IF SearchNumber(text) # << >> THEN int(SearchNumber(text))
        ELSE DefaultCap

\* ------------------------------------------------------------------------
\* The activity catalog and the event classifier
\* ------------------------------------------------------------------------

\* dict[key] = val on a dict kept as the sequence of its <<key, value>>
\* pairs in insertion order: a key that is present keeps its place
DictSet(dict, key, val) ==
    IF \E i \in 1..Len(dict) : dict[i][1] = key
    THEN [dict EXCEPT ![CHOOSE i \in 1..Len(dict) : dict[i][1] = key] = <<key, val>>]
    ELSE Append(dict, <<key, val>>)

\* lookup = {n.lower(): p for n, p in items}
RECURSIVE MakeLookup(_)
MakeLookup(items) ==
    IF Len(items) = 0 THEN << >>
    ELSE LET last == items[Len(items)]
         IN  DictSet(MakeLookup(SubSeq(items, 1, Len(items) - 1)), lower(last[1]), last[2])

GroupFitnessPattern ==
    {<<"y", "o", "g", "a">>, <<"s", "t", "r", "e", "n", "g", "t", "h">>, <<"c", "y", "c", "l", "e">>, <<"f", "i", "t", "n", "e", "s", "s", " ", "c", "l", "a", "s", "s">>, <<"p", "o", "w", "e", "r", " ", "h", "o", "u", "r">>}

LineDancePattern == {<<"l", "i", "n", "e", " ", "d", "a", "n", "c">>}

PersonalTrainingPattern == {<<"p", "e", "r", "s", "o", "n", "a", "l", " ", "t", "r", "a", "i", "n">>, <<"p", "i", "l", "a", "t", "e", "s">>, <<"p", "h", "y", "s", "i", "c", "a", "l", " ", "t", "h", "e", "r", "a", "p">>}

CourtSportPattern == {<<"p", "i", "c", "k", "l", "e">>, <<"p", "i", "c", "k", "l", "e", "b", "a", "l", "l">>, <<"t", "e", "n", "n", "i", "s">>, <<"c", "o", "u", "r", "t", " ", "s", "p", "o", "r", "t">>}

GolfRangePattern == {<<"g", "o", "l", "f", " ", "r", "a", "n", "g", "e">>}

NineHolesPattern == {<<"9", " ", "h", "o", "l", "e", "s">>, <<"n", "i", "n", "e", " ", "h", "o", "l", "e", "s">>}

EighteenHolesPattern == {<<"1", "8", " ", "h", "o", "l", "e", "s">>, <<"e", "i", "g", "h", "t", "e", "e", "n", " ", "h", "o", "l", "e", "s">>}

BoccePattern == {<<"b", "o", "c", "c", "e">>}

BonusEventPattern ==
    {<<"m", "e", "d", "i", "t", "a", "t", "i", "o", "n">>, <<"s", "u", "n", "s", "e", "t", " ", "y", "o", "g", "a">>, <<"s", "u", "n", "r", "i", "s", "e", " ", "y", "o", "g", "a">>, <<"f", "o", "a", "m", " ", "r", "o", "l", "l">>,
     <<"h", "e", "a", "l", "t", "h", " ", "f", "a", "i", "r">>, <<"f", "a", "r", "m", "e", "r">>}

\* mutant of Min: the court-sport points are not capped
Min_First(a, b) == a

Min(a, b) == IF a <= b THEN a ELSE b

\* the loop over activities_map.items(): the points of the first key that
\* is a substring of name_lower, or the default of 1
CatalogPoints(name_lower, activities_map) ==
    LET hits == {i \in 1..Len(activities_map) : Contains(activities_map[i][1], name_lower)}
    IN  IF hits = {} THEN 1
        ELSE activities_map[CHOOSE i \in hits : \A j \in hits : i <= j][2]

compute_points(name, location, duration_minutes, activities_map) ==
    LET name_lower == lower(name)
        loc_lower  == lower(location)
    IN  IF re_search(GroupFitnessPattern, name_lower) THEN 5
        ELSE IF re_search(LineDancePattern, name_lower) THEN 5
        ELSE IF re_search(PersonalTrainingPattern, name_lower) THEN 5
        ELSE IF re_search(CourtSportPattern, name_lower)
                \/ Contains(<<"c", "o", "u", "r", "t", " ", "s", "p", "o", "r", "t", "s">>, loc_lower)
             THEN Min(duration_minutes \div 15, 4)
        ELSE IF re_search(GolfRangePattern, name_lower) THEN 1
        ELSE IF re_search(NineHolesPattern, name_lower) THEN 2
        ELSE IF re_search(EighteenHolesPattern, name_lower) THEN 4
        ELSE IF re_search(BoccePattern, name_lower) THEN 1
        ELSE IF re_search(BonusEventPattern, name_lower) THEN 3
        ELSE CatalogPoints(name_lower, activities_map)

\* ------------------------------------------------------------------------
\* The daily allocator: the three passes of the day loop of generate_plan
\* ------------------------------------------------------------------------

\* the entry the mandatory pass builds for a scheduled event
PlanEntry(ev, recommended) ==
    [name             |-> ev.name,
     time             |-> ev.time,
     duration_minutes |-> ev.duration_minutes,
     points           |-> ev.points,
     location         |-> ev.location,
     recommended      |-> recommended]

\* {**entry, "reason": "exceeds_daily_cap"}
WithReason(entry) ==
    [k \in DOMAIN entry \cup {"reason"} |->
        IF k = "reason" THEN "exceeds_daily_cap" ELSE entry[k]]

\* mutant of FitsCap: the points of the event left out of the test
FitsCap_TotalOnly(total, pts, cap) == total <= cap

\* mutant of FitsCap: the test written total + pts < cap
FitsCap_Strict(total, pts, cap) == total + pts < cap

\* the cap test of the mandatory pass and of the bike-commute rule
FitsCap(total, pts, cap) == total + pts <= cap

\* the branch that accepts an event: lines 170-172
Accept(acc, ev) ==
    [items  |-> Append(acc.items, PlanEntry(ev, TRUE)),
     extras |-> acc.extras,
     total  |-> acc.total + ev.points]

\* mutant of Reject: a rejected event is dropped
Reject_Dropped(acc, ev) == acc

\* the branch that diverts an event to extras: line 174
Reject(acc, ev) ==
    [items  |-> acc.items,
     extras |-> Append(acc.extras, WithReason(PlanEntry(ev, FALSE))),
     total  |-> acc.total]

\* the loop "for ev in scheduled", from event i on, as [items, extras, total]
RECURSIVE MandatoryLoop(_, _, _, _)
MandatoryLoop(events, i, acc, cap) ==
    IF i > Len(events) THEN acc
    ELSE IF FitsCap(acc.total, events[i].points, cap)
         THEN MandatoryLoop(events, i + 1, Accept(acc, events[i]), cap)
         ELSE MandatoryLoop(events, i + 1, Reject(acc, events[i]), cap)

BikeNamePattern ==
    {<<"p", "i", "c", "k", "l", "e">>, <<"p", "b">>, <<"g", "y", "m">>, <<"f", "i", "t", "n", "e", "s", "s">>, <<"s", "t", "r", "e", "n", "g", "t", "h">>, <<"c", "y", "c", "l", "e">>, <<"y", "o", "g", "a">>}

BikeLocationPattern == {<<"f", "i", "t", "n", "e", "s", "s">>, <<"c", "o", "u", "r", "t", " ", "s", "p", "o", "r", "t", "s">>}

\* mutant of BikeRuleEvents: the rule looks at the accepted events only
BikeRuleEvents_Accepted(events, accepted) == accepted

\* the events the bike-commute rule looks at: "for it in scheduled"
BikeRuleEvents(events, accepted) == events

has_pb_or_gym(events) ==
    \E i \in 1..Len(events) :
        \/ re_search_I(BikeNamePattern, events[i].name)
        \/ re_search_I(BikeLocationPattern, events[i].location)

bike_name == <<"B", "i", "k", "e", " ", "c", "o", "m", "m", "u", "t", "e", " ", "(", "r", "o", "u", "n", "d", " ", "t", "r", "i", "p", " ", "3", "0", " ", "m", "i", "n", ")">>

bike_pts == 2

\* mutant of bike_entry: the recommended flag is never set
bike_entry_NotRecommended(recommended) ==
    [name |-> bike_name, points |-> bike_pts, duration_minutes |-> 30,
     recommended |-> FALSE]

bike_entry(recommended) ==
    [name |-> bike_name, points |-> bike_pts, duration_minutes |-> 30,
     recommended |-> recommended]

FillerPattern == {<<"1", "5", "-", "m", "i", "n", "u", "t", "e">>, <<"3", "0", "-", "m", "i", "n", "u", "t", "e">>, <<"4", "5", "-", "m", "i", "n", "u", "t", "e">>, <<"w", "a", "l", "k">>, <<"r", "e", "h", "a", "b">>}

MatchesFiller(a) == re_search_I(FillerPattern, a[1])

\* mutant of FillerCandidates: the pattern filter is left out
FillerCandidates_WholeCatalog(catalog) == catalog

\* candidates: the catalog entries that match the filler pattern, or the
\* whole catalog when none does
FillerCandidates(catalog) ==
    IF SelectSeq(catalog, MatchesFiller) = << >> THEN catalog
    ELSE SelectSeq(catalog, MatchesFiller)

\* mutant of NamePresent: the names are compared as written
NamePresent_CaseSensitive(name, entries) ==
    \E i \in 1..Len(entries) : entries[i].name = name

\* a name is already present in a list of entries (case-insensitive)
NamePresent(name, entries) ==
    \E i \in 1..Len(entries) : lower(entries[i].name) = lower(name)

\* filtered: the candidates whose name is in neither items nor extras
FilterPresent(candidates, its, exs) ==
    LET Absent(a) == ~NamePresent(a[1], its) /\ ~NamePresent(a[1], exs)
    IN  SelectSeq(candidates, Absent)

\* single: the filtered candidates that fit in the remaining points
FitsRemaining(filtered, remaining) ==
    LET Fits(a) == a[2] <= remaining
    IN  SelectSeq(filtered, Fits)

\* mutant of InsertPosition: an unstable sort, x goes before its equals
InsertPosition_BeforeEquals(sorted, x) ==
    Cardinality({i \in 1..Len(sorted) : sorted[i][2] > x[2]})

\* where list.sort(key=pts, reverse=True) puts x in a list already sorted:
\* after every element with at least as many points (the sort is stable)
InsertPosition(sorted, x) == Cardinality({i \in 1..Len(sorted) : sorted[i][2] >= x[2]})

\* single.sort(key=lambda t: t[1], reverse=True)
RECURSIVE SortByPointsDesc(_)
SortByPointsDesc(s) ==
    IF Len(s) = 0 THEN << >>
    ELSE LET sorted == SortByPointsDesc(SubSeq(s, 1, Len(s) - 1))
             x      == s[Len(s)]
             k      == InsertPosition(sorted, x)
         IN  SubSeq(sorted, 1, k) \o <<x>> \o SubSeq(sorted, k + 1, Len(sorted))

\* the guard of the filler pass
FillerGuard(remaining) == remaining > 0

\* mutant of FillerChoice: every candidate that fits on its own is appended
FillerChoice_EveryFit(catalog, its, exs, remaining) ==
    IF ~FillerGuard(remaining) THEN << >>
    ELSE SortByPointsDesc(
             FitsRemaining(FilterPresent(FillerCandidates(catalog), its, exs), remaining))

\* the filler items the pass appends: at most the head of the sorted list
FillerChoice(catalog, its, exs, remaining) ==
    LET single == FitsRemaining(FilterPresent(FillerCandidates(catalog), its, exs), remaining)
    IN  IF ~FillerGuard(remaining) \/ single = << >> THEN << >>
        ELSE <<SortByPointsDesc(single)[1]>>

filler_entry(a) == [name |-> a[1], points |-> a[2], recommended |-> TRUE]

\* ------------------------------------------------------------------------
\* Inputs: what parse_activities, parse_rules and load_reservations return
\* ------------------------------------------------------------------------

\* the longest reservation list load_reservations returns here
MaxReservations == 2

Reservation(dt_str, event, location, length) ==
    ("Date & Time" :> dt_str) @@ ("Event" :> event) @@
    ("Location" :> location) @@ ("Length" :> length)

ReservationPool ==
    { Reservation(<<"1", "/", "1", "2", "/", "2", "0", "2", "6", ",", " ", "9", ":", "0", "0", " ", "A", "M">>, <<"G", "y", "m", " ", "S", "t", "r", "e", "n", "g", "t", "h">>, <<"C", "l", "u", "b", " ", ">", " ", "G", "y", "m">>, <<"6", "0", " ", "M", "i", "n", "u", "t", "e", "s">>),
      Reservation(<<"2", "/", "1", "/", "2", "0", "2", "6", ",", " ", "1", "1", ":", "3", "0", " ", "A", "M">>, <<"P", "i", "l", "a", "t", "e", "s">>, <<"S", "t", "u", "d", "i", "o">>, <<"5", "5", " ", "M", "i", "n", "u", "t", "e", "s">>),
      Reservation(<<"1", "/", "1", "2", "/", "2", "0", "2", "6", ",", " ", "1", ":", "0", "0", " ", "P", "M">>, <<"9", " ", "H", "o", "l", "e", "s", " ", "G", "o", "l", "f">>, <<"G", "o", "l", "f">>, <<"1", "2", "0", " ", "M", "i", "n", "u", "t", "e", "s">>),
      Reservation(<<"1", "/", "1", "2", "/", "2", "0", "2", "6", ",", " ", "3", ":", "0", "0", " ", "P", "M">>, <<"M", "a", "s", "s", "a", "g", "e">>, <<"S", "p", "a">>, <<"5", "0", " ", "M", "i", "n", "u", "t", "e", "s">>),
      Reservation(<<"1", "/", "1", "2", "/", "2", "0", "2", "6", ",", " ", "1", "2", ":", "1", "5", " ", "P", "M">>, <<"R", "E", "H", "A", "B">>, <<>>, <<"3", "0", " ", "M", "i", "n", "u", "t", "e", "s">>),
      Reservation(<<"1", "/", "1", "2", "/", "2", "0", "2", "6", ",", " ", "6", ":", "0", "0", " ", "P", "M">>, <<"P", "i", "c", "k", "l", "e", "b", "a", "l", "l", " ", "O", "p", "e", "n", " ", "P", "l", "a", "y">>, <<"C", "l", "u", "b", " ", ">", " ", "C", "o", "u", "r", "t", " ", "S", "p", "o", "r", "t", "s">>,
                  <<"3", "0", " ", "M", "i", "n", "u", "t", "e", "s">>) }

\* the sequences over S of length at most n
BoundedSeq(S, n) == UNION {[1..k -> S] : k \in 0..n}

\* the catalogs parse_activities returns here, as lists of <<name, points>>
Catalogs ==
    { << <<<<"W", "a", "l", "k", " ", "1", "5", " ", "m", "i", "n">>, 2>>, <<<<"S", "t", "r", "e", "t", "c", "h">>, 3>>, <<<<"R", "e", "h", "a", "b">>, 4>>, <<<<"M", "a", "s", "s", "a", "g", "e">>, 12>> >>,
      << <<<<"W", "a", "l", "k", " ", "4", "5">>, 5>>, <<<<"W", "a", "l", "k", " ", "3", "0">>, 4>>, <<<<"W", "a", "l", "k", " ", "1", "5">>, 3>>, <<<<"S", "t", "r", "e", "t", "c", "h">>, 1>> >>,
      << <<<<"S", "t", "r", "e", "t", "c", "h">>, 3>>, <<<<"S", "a", "u", "n", "a">>, 3>>, <<<<"B", "I", "K", "E", " ", "C", "O", "M", "M", "U", "T", "E", " ", "(", "r", "o", "u", "n", "d", " ", "t", "r", "i", "p", " ", "3", "0", " ", "m", "i", "n", ")">>, 2>> >>,
      << <<<<"S", "l", "o", "w", " ", "w", "a", "l", "k">>, 0>> >> }

\* the rules files of the plans checked here: caps of 18 (no file), 7, 4
\* and 0
RulesFiles ==
    { MissingFile,
      FileOf(<<"D", "a", "i", "l", "y", " ", "T", "o", "t", "a", "l", ":", " ", "7">>),
      FileOf(<<"D", "a", "i", "l", "y", " ", "c", "a", "p", " ", "4", " ", "p", "t", "s">>),
      FileOf(<<"d", "a", "i", "l", "y", " ", "t", "o", "t", "a", "l", " ", "=", " ", "0">>) }

\* ------------------------------------------------------------------------
\* generate_plan as a state machine
\* ------------------------------------------------------------------------

VARIABLES
    rules_file,            \* rules.txt: missing, or its text
    activities_list,       \* the catalog, in source order
    activities_map,        \* the lower-cased lookup, in dict order
    daily_cap,
    reservations,          \* the list of reservation records
    reservations_by_date,  \* date -> the entries of that date, in list order
    plan,                  \* challenge_start, challenge_end, daily
    d,                     \* the date of the day loop
    items, extras, total,  \* the day being planned
    pc                     \* the position in generate_plan

\* materialize_schedule.py, the second program
VARIABLES
    sch,                   \* the schedule document
    start, end,            \* the dates of --start and --end
    today,                 \* datetime.date.today()
    log,                   \* log.txt: missing, or its text
    text,                  \* the text read from log.txt
    existing_dates,        \* the ISO dates of the "Date:" lines of text
    to_add,                \* the blocks to append
    day,                   \* the date of the loop over the range
    mpc                    \* the position in main

materialize_vars == <<sch, start, end, today, log, text, existing_dates, to_add, day, mpc>>

generate_plan_vars ==
    <<rules_file, activities_list, activities_map, daily_cap, reservations,
      reservations_by_date, plan, d, items, extras, total, pc>>

vars == <<generate_plan_vars, materialize_vars>>

\* materialize_schedule.py is not run
NotMaterializing ==
    /\ sch = [events |-> << >>]
    /\ start = None
    /\ end = None
    /\ today = None
    /\ log = MissingFile
    /\ text = None
    /\ existing_dates = {}
    /\ to_add = << >>
    /\ day = None
    /\ mpc = "off"

inputs == <<rules_file, activities_list, activities_map, daily_cap, reservations>>

\* the state at line 129 of generate_plan, for given files: the catalog,
\* the cap and the reservations are loaded and nothing is planned
Loaded(rules, catalog, list) ==
    /\ rules_file = rules
    /\ activities_list = catalog
    /\ activities_map = MakeLookup(catalog)
    /\ daily_cap = parse_rules(rules)
    /\ reservations = list
    /\ reservations_by_date = << >>
    /\ plan = [challenge_start |-> isoformat(start_date),
               challenge_end   |-> isoformat(end_date),
               daily           |-> << >>]
    /\ d = start_date
    /\ items = << >>
    /\ extras = << >>
    /\ total = 0
    /\ pc = "group"
    /\ NotMaterializing

Init ==
    \E rules \in RulesFiles, catalog \in Catalogs,
       list \in BoundedSeq(ReservationPool, MaxReservations) :
        Loaded(rules, catalog, list)

\* a or b of Python, for strings
Or(a, b) == IF a # << >> THEN a ELSE b

\* the entry built from one reservation whose date parsed
ReservationEntry(res, amap) ==
    LET name     == Or(get(res, "Event", None),
                       strip(LastSegment(get(res, "Location", << >>), ">")))
        location == get(res, "Location", << >>)
        duration == parse_duration(get(res, "Length", <<"6", "0", " ", "M", "i", "n", "u", "t", "e", "s">>))
    IN  [name             |-> name,
         time             |-> parse_reservation_datetime(get(res, "Date & Time", << >>)).time_str,
         duration_minutes |-> duration,
         points           |-> compute_points(name, location, duration, amap),
         location         |-> location]

\* mutant of SetDefaultAppend: the list of the date is replaced
SetDefaultAppend_Replace(by_date, dt, entry) ==
    (dt :> <<entry>>) @@ by_date

\* by_date.setdefault(dt, []).append(entry)
SetDefaultAppend(by_date, dt, entry) ==
    IF dt \in DOMAIN by_date
    THEN [by_date EXCEPT ![dt] = Append(@, entry)]
    ELSE (dt :> <<entry>>) @@ by_date

\* the loop "for res in reservations": a record whose date does not match
\* is skipped
RECURSIVE GroupByDate(_, _)
GroupByDate(list, amap) ==
    IF Len(list) = 0 THEN << >>
    ELSE LET done == GroupByDate(SubSeq(list, 1, Len(list) - 1), amap)
             res  == list[Len(list)]
             dt   == parse_reservation_datetime(get(res, "Date & Time", << >>)).dt
         IN  IF dt = None THEN done
             ELSE SetDefaultAppend(done, dt, ReservationEntry(res, amap))

\* some record makes parse_reservation_datetime raise
GroupingRaises(list) ==
    \E i \in 1..Len(list) : DateTimeRaises(get(list[i], "Date & Time", << >>))

\* lines 129-149: group the reservations by date; an invalid calendar date
\* ends the run with ValueError
GroupReservations ==
    /\ pc = "group"
    /\ IF GroupingRaises(reservations)
       THEN /\ pc' = "raised"
            /\ UNCHANGED reservations_by_date
       ELSE /\ pc' = "mandatory"
            /\ reservations_by_date' = GroupByDate(reservations, activities_map)
    /\ UNCHANGED <<materialize_vars, inputs, plan, d, items, extras, total>>

\* scheduled = reservations_by_date.get(d, [])
scheduled == get(reservations_by_date, d, << >>)

\* lines 153-174: the mandatory pass of day d
MandatoryPass ==
    /\ pc = "mandatory"
    /\ LET r == MandatoryLoop(scheduled, 1,
                    [items |-> << >>, extras |-> << >>, total |-> 0], daily_cap)
       IN  /\ items' = r.items
           /\ extras' = r.extras
           /\ total' = r.total
    /\ pc' = "bike"
    /\ UNCHANGED <<materialize_vars, inputs, reservations_by_date, plan, d>>

\* lines 176-191: the bike-commute rule
BikeCommute ==
    /\ pc = "bike"
    /\ IF has_pb_or_gym(BikeRuleEvents(scheduled, items))
       THEN IF FitsCap(total, bike_pts, daily_cap)
            THEN /\ items' = Append(items, bike_entry(TRUE))
                 /\ total' = total + bike_pts
                 /\ UNCHANGED extras
            ELSE /\ extras' = Append(extras, WithReason(bike_entry(FALSE)))
                 /\ UNCHANGED <<items, total>>
       ELSE UNCHANGED <<items, extras, total>>
    /\ pc' = "filler"
    /\ UNCHANGED <<materialize_vars, inputs, reservations_by_date, plan, d>>

RECURSIVE SumPoints(_)
SumPoints(s) == IF Len(s) = 0 THEN 0 ELSE s[1][2] + SumPoints(Tail(s))

\* lines 193-217: the filler pass
FillerPass ==
    /\ pc = "filler"
    /\ LET chosen == FillerChoice(activities_list, items, extras, daily_cap - total)
       IN  /\ items' = items \o [i \in 1..Len(chosen) |-> filler_entry(chosen[i])]
           /\ total' = total + SumPoints(chosen)
    /\ pc' = "append"
    /\ UNCHANGED <<materialize_vars, inputs, reservations_by_date, plan, d, extras>>

DayPlan == [date |-> isoformat(d), items |-> items, extras |-> extras,
            total_points |-> total]

\* lines 219-225 and the loop test of line 152
AppendDay ==
    /\ pc = "append"
    /\ plan' = [plan EXCEPT !.daily = Append(@, DayPlan)]
    /\ d' = PlusOneDay(d)
    /\ items' = << >>
    /\ extras' = << >>
    /\ total' = 0
    /\ pc' = IF DateLeq(PlusOneDay(d), end_date) THEN "mandatory" ELSE "write"
    /\ UNCHANGED <<materialize_vars, inputs, reservations_by_date>>

\* lines 227-229: plan.json is written
WritePlan ==
    /\ pc = "write"
    /\ pc' = "done"
    /\ UNCHANGED <<materialize_vars, inputs, reservations_by_date, plan, d, items, extras, total>>

Next ==
    \/ GroupReservations
    \/ MandatoryPass
    \/ BikeCommute
    \/ FillerPass
    \/ AppendDay
    \/ WritePlan

Spec == Init /\ [][Next]_vars

\* ------------------------------------------------------------------------
\* materialize_schedule.py
\* ------------------------------------------------------------------------

\* the two characters of the blocks that are not ASCII, each one character
EmDash == "U+2014"

EnDash == "U+2013"

WEEKDAY_MAP ==
    ("Mon" :> 0) @@ ("Tue" :> 1) @@ ("Wed" :> 2) @@ ("Thu" :> 3) @@
    ("Fri" :> 4) @@ ("Sat" :> 5) @@ ("Sun" :> 6)

\* WEEKDAY_MAP.get(name) == w: None, for a name that is no key, equals no
\* weekday
WeekdayIs(name, w) == name \in DOMAIN WEEKDAY_MAP /\ WEEKDAY_MAP[name] = w

\* the days of the months of year y before month m
RECURSIVE DaysBeforeMonth(_, _)
DaysBeforeMonth(y, m) ==
    IF m = 1 THEN 0 ELSE DaysBeforeMonth(y, m - 1) + DaysInMonth(y, m - 1)

\* date.toordinal(): 1 for 0001-01-01
toordinal(dt) ==
    LET y == dt[1] - 1
    IN  365 * y + (y \div 4) - (y \div 100) + (y \div 400)
        + DaysBeforeMonth(dt[1], dt[2]) + dt[3]

\* date.weekday(): 0 for Monday
weekday(dt) == (toordinal(dt) + 6) % 7

\* the positions of text where a line starts ((?m)^)
LineStarts(s) == {p \in 1..Len(s) : p = 1 \/ s[p - 1] = "\n"}

\* the first position at or after pos that holds no blank of its line
RECURSIVE SkipBlank(_, _)
SkipBlank(s, pos) ==
    IF pos <= Len(s) /\ s[pos] \in {" ", "\t"} THEN SkipBlank(s, pos + 1) ELSE pos

\* \d{4}-\d{2}-\d{2} matches at q
IsoAt(s, q) ==
    /\ q + 9 <= Len(s)
    /\ DigitRun(s, q, 4) = 4
    /\ s[q + 4] = "-"
    /\ DigitRun(s, q + 5, 2) = 2
    /\ s[q + 7] = "-"
    /\ DigitRun(s, q + 8, 2) = 2

\* \s*$ matches at e: some run of whitespace from e ends where a line or the
\* text ends, which is so when the blanks at e reach a line break or the end
EndsLine(s, e) == SkipBlank(s, e) > Len(s) \/ s[SkipBlank(s, e)] = "\n"

\* ^Date:\s*(\d{4}-\d{2}-\d{2})\s*$ matches at the line start p
DateLineAt(s, p) ==
    /\ p + 4 <= Len(s)
    /\ SubSeq(s, p, p + 4) = <<"D", "a", "t", "e", ":">>
    /\ IsoAt(s, SkipSpace(s, p + 5))
    /\ EndsLine(s, SkipSpace(s, p + 5) + 10)

\* mutant of ExistingDates: no date of the log is found
ExistingDates_None(s) == {}

\* lines 48-51: group 1 of every match of the pattern
ExistingDates(s) ==
    {SubSeq(s, SkipSpace(s, p + 5), SkipSpace(s, p + 5) + 9) :
        p \in {q \in LineStarts(s) : DateLineAt(s, q)}}

\* d1 < d2 of two dates
DateLt(d1, d2) == DateLeq(d1, d2) /\ d1 # d2

\* an event of the schedule and one of its occurrences
Event(name, points, occurrences) ==
    [name |-> name, points |-> points, occurrences |-> occurrences]

Occurrence(wd, t) == [weekday |-> wd, time |-> t]

\* an occurrence without the key "time"
OccurrenceNoTime(wd) == [weekday |-> wd]

\* "- {name} ({t}) - {pts} pts"; a missing time is formatted as None
ActivityLine(ev, occ) ==
    <<"-", " ">> \o ev.name \o <<" ", "(">>
    \o (IF "time" \in DOMAIN occ THEN occ.time ELSE <<"N", "o", "n", "e">>)
    \o <<")", " ">> \o <<EmDash>> \o <<" ">> \o str(ev.points) \o <<" ", "p", "t", "s">>

\* the lines of one event for weekday w, in the order of its occurrences
RECURSIVE OccurrenceLines(_, _, _)
OccurrenceLines(ev, occs, w) ==
    IF occs = << >> THEN << >>
    ELSE (IF WeekdayIs(occs[1].weekday, w) THEN <<ActivityLine(ev, occs[1])>> ELSE << >>)
         \o OccurrenceLines(ev, Tail(occs), w)

\* lines 63-71: "Activities:" and the lines of the events, in schedule order
RECURSIVE EventLines(_, _)
EventLines(events, w) ==
    IF events = << >> THEN << >>
    ELSE OccurrenceLines(events[1], events[1].occurrences, w) \o EventLines(Tail(events), w)

ScheduleLines(schedule, w) == <<<<"A", "c", "t", "i", "v", "i", "t", "i", "e", "s", ":">>>> \o EventLines(schedule.events, w)

\* sum([int(re.search(r"(\d+)", l).group(1)) for l in lines]): the first
\* number of each line
RECURSIVE SumFirstNumbers(_)
SumFirstNumbers(lines) ==
    IF lines = << >> THEN 0
    ELSE int(FirstDigits(lines[1])) + SumFirstNumbers(Tail(lines))

\* "\n".join(lines)
RECURSIVE JoinNewline(_)
JoinNewline(lines) ==
    IF lines = << >> THEN << >>
    ELSE IF Len(lines) = 1 THEN lines[1]
    ELSE lines[1] \o <<"\n">> \o JoinNewline(Tail(lines))

\* what ends every block
BlockEnd ==
    <<"\n", "\n", "W", "e", "e", "k", "l", "y", " ", "B", "o", "n", "u", "s", " ", "/", " ", "E", "v", "e", "n", "t", " ", "t", "o", "d", "a", "y", ":", " ", "N", "o", "n", "e", "\n", "H", "o", "w", " ", "I", " ", "f", "e", "l", "t", " ", "(", "1">> \o <<EnDash>>
    \o <<"5", ")", ":", "\n", "N", "o", "t", "e", "s", " ", "(", "o", "p", "t", "i", "o", "n", "a", "l", ")", ":", "\n", "\n">>

\* lines 72-79: the block of a date
Block(dt, schedule) ==
    LET lines == ScheduleLines(schedule, weekday(dt))
    IN  IF Len(lines) = 1
        THEN <<"D", "a", "t", "e", ":", " ">> \o isoformat(dt)
             \o <<"\n", "A", "c", "t", "i", "v", "i", "t", "i", "e", "s", ":", "\n", "\n", "D", "a", "i", "l", "y", " ", "T", "o", "t", "a", "l", " ", "(", "a", "c", "t", "i", "v", "i", "t", "y", " ", "p", "o", "i", "n", "t", "s", ")", ":", " ", "0">> \o BlockEnd
        ELSE <<"D", "a", "t", "e", ":", " ">> \o isoformat(dt) \o <<"\n">> \o JoinNewline(lines)
             \o <<"\n", "\n", "D", "a", "i", "l", "y", " ", "T", "o", "t", "a", "l", " ", "(", "a", "c", "t", "i", "v", "i", "t", "y", " ", "p", "o", "i", "n", "t", "s", ")", ":", " ">>
             \o str(SumFirstNumbers(Tail(lines))) \o BlockEnd

\* "".join(to_add)
RECURSIVE Concat(_)
Concat(blocks) == IF blocks = << >> THEN << >> ELSE blocks[1] \o Concat(Tail(blocks))

\* lines 42-53: without log.txt main returns; otherwise the text is read and
\* its dates are collected
ReadLog ==
    /\ mpc = "read"
    /\ IF ~log.exists
       THEN /\ mpc' = "done"
            /\ UNCHANGED <<text, existing_dates, to_add, day>>
       ELSE /\ text' = log.text
            /\ existing_dates' = ExistingDates(log.text)
            /\ to_add' = << >>
            /\ day' = start
            /\ mpc' = "range"
    /\ UNCHANGED <<generate_plan_vars, sch, start, end, today, log>>

\* lines 54-80: one date of date_range(start, end)
VisitDate ==
    /\ mpc = "range"
    /\ DateLeq(day, end)
    /\ to_add' = IF isoformat(day) \in existing_dates \/ DateLt(day, today)
                 THEN to_add
                 ELSE Append(to_add, Block(day, sch))
    /\ day' = PlusOneDay(day)
    /\ UNCHANGED <<generate_plan_vars, sch, start, end, today, log, text, existing_dates, mpc>>

\* lines 82-90: the range is exhausted; the blocks are appended to log.txt,
\* or nothing is written when there is none
AppendToLog ==
    /\ mpc = "range"
    /\ ~DateLeq(day, end)
    /\ log' = IF to_add = << >> THEN log
              ELSE FileOf(log.text \o <<"\n">> \o Concat(to_add))
    /\ mpc' = "done"
    /\ UNCHANGED <<generate_plan_vars, sch, start, end, today, text, existing_dates, to_add, day>>

MaterializeNext ==
    \/ ReadLog
    \/ VisitDate
    \/ AppendToLog

\* generate_plan is not run
NotPlanning ==
    /\ rules_file = MissingFile
    /\ activities_list = << >>
    /\ activities_map = << >>
    /\ daily_cap = DefaultCap
    /\ reservations = << >>
    /\ reservations_by_date = << >>
    /\ plan = [challenge_start |-> isoformat(start_date),
               challenge_end   |-> isoformat(end_date),
               daily           |-> << >>]
    /\ d = start_date
    /\ items = << >>
    /\ extras = << >>
    /\ total = 0
    /\ pc = "off"

\* the schedules: none, one event twice a week with times, two events
\* without times, and an event with a number in its name
Schedules ==
    { [events |-> << >>],
      [events |-> << Event(<<"Y", "o", "g", "a">>, 5, <<Occurrence("Mon", <<"0", "9", ":", "0", "0">>), Occurrence("Wed", <<"1", "8", ":", "3", "0">>)>>) >>],
      [events |-> << Event(<<"W", "a", "l", "k">>, 2, <<OccurrenceNoTime("Mon"), OccurrenceNoTime("Sun")>>),
                     Event(<<"S", "t", "r", "e", "t", "c", "h">>, 3, <<OccurrenceNoTime("Mon"), OccurrenceNoTime("Tue"),
                                             OccurrenceNoTime("Monday")>>) >>],
      [events |-> << Event(<<"5", "K", " ", "R", "u", "n">>, 4, <<Occurrence("Sun", <<"7", ":", "0", "0">>), OccurrenceNoTime("Mon")>>),
                     Event(<<"Y", "o", "g", "a">>, 5, <<OccurrenceNoTime("Sun")>>) >>] }

\* log.txt: missing, empty, with the block of one date, with a "Date:" line
\* that ends in a blank and one that ends in other text, and with a date on
\* the line after "Date:" and a "Date:" that does not start its line
Logs ==
    { MissingFile,
      FileOf(<< >>),
      FileOf(<<"D", "a", "t", "e", ":", " ", "2", "0", "2", "6", "-", "1", "1", "-", "3", "0", "\n", "A", "c", "t", "i", "v", "i", "t", "i", "e", "s", ":", "\n", "-", " ", "W", "a", "l", "k", " ", "(", "N", "o", "n", "e", ")", " ">> \o <<EmDash>>
             \o <<" ", "2", " ", "p", "t", "s", "\n", "\n", "D", "a", "i", "l", "y", " ", "T", "o", "t", "a", "l", " ", "(", "a", "c", "t", "i", "v", "i", "t", "y", " ", "p", "o", "i", "n", "t", "s", ")", ":", " ", "2", "\n", "\n">>),
      FileOf(<<"D", "a", "t", "e", ":", " ", "2", "0", "2", "6", "-", "1", "1", "-", "2", "9", " ", "\n", "N", "o", "t", "e", "s", "\n", "D", "a", "t", "e", ":", " ", "2", "0", "2", "6", "-", "1", "2", "-", "0", "1", " ", "(", "T", "u", "e", ")", "\n">>),
      FileOf(<<"D", "a", "t", "e", ":", "\n", "2", "0", "2", "6", "-", "1", "1", "-", "3", "0", "\n", " ", "D", "a", "t", "e", ":", " ", "2", "0", "2", "6", "-", "1", "1", "-", "2", "9">>) }

first_day == <<2026, 11, 29>>

MaxRangeDays == 3

\* the date n days after dt
RECURSIVE DaysAfter(_, _)
DaysAfter(dt, n) == IF n = 0 THEN dt ELSE PlusOneDay(DaysAfter(dt, n - 1))

\* --end: the day before --start, or up to MaxRangeDays days after it
RangeEnds == {<<2026, 11, 28>>} \cup {DaysAfter(first_day, n) : n \in 0..MaxRangeDays}

Todays == {<<2026, 11, 29>>, <<2026, 12, 1>>, <<2026, 12, 25>>}

\* main of materialize_schedule.py at line 42, the schedule and the two
\* dates loaded
MaterializeInit ==
    /\ NotPlanning
    /\ sch \in Schedules
    /\ start = first_day
    /\ end \in RangeEnds
    /\ today \in Todays
    /\ log \in Logs
    /\ text = None
    /\ existing_dates = {}
    /\ to_add = << >>
    /\ day = None
    /\ mpc = "read"

MaterializeSpec == MaterializeInit /\ [][MaterializeNext]_vars

\* ------------------------------------------------------------------------
\* Properties
\* ------------------------------------------------------------------------

\* the sum of the points of a list of entries
RECURSIVE PointsOf(_)
PointsOf(entries) ==
    IF Len(entries) = 0 THEN 0 ELSE entries[1].points + PointsOf(Tail(entries))

\* an entry built from a scheduled event (bike and filler entries carry no
\* location)
IsMandatoryEntry(e) == "location" \in DOMAIN e

\* a filler entry carries neither a duration nor a location
IsFillerEntry(e) == "duration_minutes" \notin DOMAIN e

IsBikeEntry(e) == ~IsMandatoryEntry(e) /\ ~IsFillerEntry(e)

\* the day loop is past the mandatory, the bike or the filler pass
AfterAPass == pc \in {"bike", "filler", "append"}

PlanFinished == pc \in {"write", "done"}

\* the 35 days of the challenge, computed from the calendar of 2026 and not
\* from PlusOneDay: day i is 11 + i January up to the 31st, then February
ChallengeDays == 35

ChallengeDate(i) == IF i <= 20 THEN <<2026, 1, 11 + i>> ELSE <<2026, 2, i - 20>>

\* the date an ISO string YYYY-MM-DD names
ParseIso(s) == <<int(SubSeq(s, 1, 4)), int(SubSeq(s, 6, 7)), int(SubSeq(s, 9, 10))>>

WellFormedIso(s) == Len(s) = 10 /\ s[5] = "-" /\ s[8] = "-"

TotalWithinCap(its, tot) ==
    /\ tot = PointsOf(its)
    /\ \A i \in 1..Len(its) : its[i].recommended = TRUE
    /\ tot <= daily_cap

\* C1: after each of the three passes of a day, and in every DayPlan of the
\* finished plan, total_points is the sum of the points of items, every
\* entry of items is recommended, and total_points is at most the daily cap.
C1_TotalIsSumWithinCap ==
    /\ AfterAPass => TotalWithinCap(items, total)
    /\ PlanFinished =>
          \A i \in 1..Len(plan.daily) :
              TotalWithinCap(plan.daily[i].items, plan.daily[i].total_points)

\* C1 witness: a finished plan holds a day that the three passes filled up
\* to a positive cap: a mandatory, a bike and a filler entry in items.
C1_Witness ==
    /\ PlanFinished
    /\ daily_cap > 0
    /\ \E i \in 1..Len(plan.daily) :
          LET its == plan.daily[i].items
          IN  /\ plan.daily[i].total_points = daily_cap
              /\ \E a, b, c \in 1..Len(its) :
                    IsMandatoryEntry(its[a]) /\ IsBikeEntry(its[b]) /\ IsFillerEntry(its[c])

\* DayPlan i of plan.daily carries the date of day i of the challenge
DateInPlace(i) ==
    /\ WellFormedIso(plan.daily[i].date)
    /\ ParseIso(plan.daily[i].date) = ChallengeDate(i)

\* what holds of plan.daily and of the loop variable d in every state: the
\* DayPlan appended last is in place, the loop is at the day that follows,
\* and the finished plan has every day in place
DailyInDateOrder ==
    /\ Len(plan.daily) <= ChallengeDays
    /\ Len(plan.daily) > 0 => DateInPlace(Len(plan.daily))
    /\ pc \in {"mandatory", "bike", "filler", "append"} =>
          /\ Len(plan.daily) < ChallengeDays
          /\ d = ChallengeDate(Len(plan.daily) + 1)
    /\ PlanFinished =>
          /\ Len(plan.daily) = ChallengeDays
          /\ \A i \in 1..ChallengeDays : DateInPlace(i)

\* an upper bound on the steps generate_plan has still to take: four per day
\* that is not yet in plan.daily, less the passes done on the current day
StepsLeft ==
    CASE pc = "group"     -> 4 * ChallengeDays + 2
      [] pc = "mandatory" -> 4 * (ChallengeDays - Len(plan.daily)) + 1
      [] pc = "bike"      -> 4 * (ChallengeDays - Len(plan.daily))
      [] pc = "filler"    -> 4 * (ChallengeDays - Len(plan.daily)) - 1
      [] pc = "append"    -> 4 * (ChallengeDays - Len(plan.daily)) - 2
      [] pc = "write"     -> 1
      [] OTHER            -> 0

\* C2: plan.daily lists the days of the challenge in order, one DayPlan per
\* date from 2026-01-12 on with no gap and no repeat, and the plan that is
\* written holds all 35 days, 2026-02-15 the last; the day loop terminates:
\* every step lowers a count that is never negative.
C2_OneDayPlanPerDate ==
    /\ []DailyInDateOrder
    /\ [][StepsLeft' < StepsLeft /\ StepsLeft' >= 0]_vars

\* C2 witness: the plan is written with reservations on two different dates,
\* one of them after the turn of the month.
C2_Witness ==
    /\ pc = "done"
    /\ Len(plan.daily) = ChallengeDays
    /\ plan.daily[1].items # << >>
    /\ plan.daily[21].date = <<"2", "0", "2", "6", "-", "0", "2", "-", "0", "1">>
    /\ \E k \in 1..Len(plan.daily[21].items) : IsMandatoryEntry(plan.daily[21].items[k])

\* the k-th smallest element of a set of numbers
Kth(S, k) == CHOOSE x \in S : Cardinality({y \in S : y < x}) = k - 1

\* what items holds for an accepted event, and extras for a rejected one
AcceptedEntry(ev) ==
    [name |-> ev.name, time |-> ev.time, duration_minutes |-> ev.duration_minutes,
     points |-> ev.points, location |-> ev.location, recommended |-> TRUE]

RejectedEntry(ev) ==
    [name |-> ev.name, time |-> ev.time, duration_minutes |-> ev.duration_minutes,
     points |-> ev.points, location |-> ev.location, recommended |-> FALSE,
     reason |-> "exceeds_daily_cap"]

\* the events with index in S, in input order, as accepted or rejected entries
AcceptedOf(events, S) ==
    [k \in 1..Cardinality(S) |-> AcceptedEntry(events[Kth(S, k)])]

RejectedOf(events, S) ==
    [k \in 1..Cardinality(S) |-> RejectedEntry(events[Kth(S, k)])]

\* the running total after the first i events, each taken when it fits
RunningTotal(events, cap) ==
    LET T[i \in 0..Len(events)] ==
            IF i = 0 THEN 0
            ELSE IF T[i - 1] + events[i].points <= cap
                 THEN T[i - 1] + events[i].points
                 ELSE T[i - 1]
    IN  T

\* C3: right after the mandatory pass, items holds exactly the events that
\* fitted under the cap when they were visited in input order (running total
\* from 0), with recommended = TRUE, extras holds the others with reason
\* "exceeds_daily_cap", total is the running total, and an event with more
\* points than the cap is in extras.
C3_MandatoryPassInInputOrder ==
    pc = "bike" =>
        LET n   == Len(scheduled)
            T   == RunningTotal(scheduled, daily_cap)
            Acc == {i \in 1..n : T[i - 1] + scheduled[i].points <= daily_cap}
        IN  /\ items = AcceptedOf(scheduled, Acc)
            /\ extras = RejectedOf(scheduled, (1..n) \ Acc)
            /\ total = T[n]
            /\ \A i \in 1..n :
                  scheduled[i].points > daily_cap =>
                      \E k \in 1..Len(extras) : extras[k] = RejectedEntry(scheduled[i])

\* C3 witness: the first event of the day was rejected and a later event
\* with fewer points was accepted.
C3_Witness ==
    /\ pc = "bike"
    /\ Len(scheduled) = 2
    /\ extras = <<RejectedEntry(scheduled[1])>>
    /\ items = <<AcceptedEntry(scheduled[2])>>
    /\ scheduled[2].points < scheduled[1].points
    /\ total = scheduled[2].points

\* the mandatory entries of a day are a stable partition of its events, and
\* every entry of extras is marked
StablePartition(events, its, exs) ==
    /\ \E A \in SUBSET (1..Len(events)) :
          /\ SelectSeq(its, IsMandatoryEntry) = AcceptedOf(events, A)
          /\ SelectSeq(exs, IsMandatoryEntry) = RejectedOf(events, (1..Len(events)) \ A)
    /\ \A k \in 1..Len(exs) :
          /\ "reason" \in DOMAIN exs[k]
          /\ exs[k].reason = "exceeds_daily_cap"
          /\ exs[k].recommended = FALSE

\* C4: after each pass of a day, and in every DayPlan of the finished plan,
\* each event of the date is in items or in extras, once, the events in
\* items and those in extras are in input order, and every entry of extras
\* has reason "exceeds_daily_cap" and recommended = FALSE.
C4_StablePartition ==
    /\ AfterAPass => StablePartition(scheduled, items, extras)
    /\ PlanFinished =>
          \A i \in 1..Len(plan.daily) :
              StablePartition(get(reservations_by_date, ChallengeDate(i), << >>),
                              plan.daily[i].items, plan.daily[i].extras)

\* C4 witness: two different events of one date were both rejected and stand
\* in extras in input order.
C4_Witness ==
    /\ pc = "append"
    /\ Len(scheduled) = 2
    /\ scheduled[1] # scheduled[2]
    /\ Len(extras) >= 2
    /\ extras[1] = RejectedEntry(scheduled[1])
    /\ extras[2] = RejectedEntry(scheduled[2])

\* a bike-commute entry stands in items or in extras
BikePresent ==
    \E k \in 1..Len(items \o extras) : IsBikeEntry((items \o extras)[k])

\* C5 as claimed: a day gets a bike-commute entry only if an event accepted
\* into items matches the gym/pickleball/fitness pattern.
C5_BikeOnlyIfAcceptedMatch ==
    pc = "filler" =>
        (BikePresent => has_pb_or_gym(SelectSeq(items, IsMandatoryEntry)))

\* C5 as amended: a day gets a bike-commute entry exactly when an event
\* scheduled for it matches the pattern, whether the mandatory pass accepted
\* the event into items or rejected it into extras.
C5_BikeIffScheduledMatch ==
    pc = "filler" =>
        (BikePresent <=> has_pb_or_gym(SelectSeq(items \o extras, IsMandatoryEntry)))

\* C5 witness: the only matching events of the day were rejected and the
\* bike-commute entry is there.
C5_Witness ==
    /\ pc = "filler"
    /\ BikePresent
    /\ ~has_pb_or_gym(SelectSeq(items, IsMandatoryEntry))
    /\ has_pb_or_gym(SelectSeq(extras, IsMandatoryEntry))

\* C6: when the rule fires, one entry "Bike commute (round trip 30 min)" of
\* 30 minutes and 2 points is added: to items with recommended = TRUE and
\* the total raised by 2 if total + 2 <= cap, else to extras with reason
\* "exceeds_daily_cap" and the total unchanged.
C6_BikeItemCapTest ==
    [][(pc = "bike" /\ has_pb_or_gym(scheduled)) =>
          IF total + 2 <= daily_cap
          THEN /\ items' = Append(items,
                      [name |-> <<"B", "i", "k", "e", " ", "c", "o", "m", "m", "u", "t", "e", " ", "(", "r", "o", "u", "n", "d", " ", "t", "r", "i", "p", " ", "3", "0", " ", "m", "i", "n", ")">>, points |-> 2,
                       duration_minutes |-> 30, recommended |-> TRUE])
               /\ total' = total + 2
               /\ extras' = extras
          ELSE /\ extras' = Append(extras,
                      [name |-> <<"B", "i", "k", "e", " ", "c", "o", "m", "m", "u", "t", "e", " ", "(", "r", "o", "u", "n", "d", " ", "t", "r", "i", "p", " ", "3", "0", " ", "m", "i", "n", ")">>, points |-> 2,
                       duration_minutes |-> 30, recommended |-> FALSE,
                       reason |-> "exceeds_daily_cap"])
               /\ total' = total
               /\ items' = items]_vars

\* C6 witness: with a cap of 18 and a total of 17 the bike-commute entry
\* went to extras.
C6_Witness ==
    /\ pc = "filler"
    /\ daily_cap = 18
    /\ total = 17
    /\ \E k \in 1..Len(extras) :
          /\ IsBikeEntry(extras[k])
          /\ extras[k].reason = "exceeds_daily_cap"

\* the places in the catalog of the filler pool: the entries whose name
\* matches the filler pattern, or every entry when none matches
PoolIdx ==
    LET hits == {i \in 1..Len(activities_list) : MatchesFiller(activities_list[i])}
    IN  IF hits = {} THEN 1..Len(activities_list) ELSE hits

\* a name equals, letter case aside, the name of one of the entries
NameTaken(name, entries) ==
    \E k \in 1..Len(entries) : lower(entries[k].name) = lower(name)

\* the pool entries not excluded by the entries of the day, and those of
\* them that fit in the remaining points
OpenIdx(entries) == {i \in PoolIdx : ~NameTaken(activities_list[i][1], entries)}

FitIdx(entries, remaining) ==
    {i \in OpenIdx(entries) : activities_list[i][2] <= remaining}

\* the place with the most points, the earliest among equals
BestIdx(F) ==
    CHOOSE i \in F : \A j \in F :
        \/ activities_list[j][2] < activities_list[i][2]
        \/ activities_list[j][2] = activities_list[i][2] /\ i <= j

FillerEntryOf(i) ==
    [name |-> activities_list[i][1], points |-> activities_list[i][2],
     recommended |-> TRUE]

\* C7: in the filler pass, with remaining = cap - total > 0 and a candidate
\* that is not excluded and fits, one entry is appended to items: the
\* fitting candidate with the most points, the earliest in the catalog among
\* equals; its points are added to the total.
C7_FastPathPicksFirstMaximum ==
    [][(pc = "filler" /\ daily_cap - total > 0) =>
          \A F \in {FitIdx(items \o extras, daily_cap - total)} :
              F # {} =>
                  \A best \in {BestIdx(F)} :
                      /\ items' = Append(items, FillerEntryOf(best))
                      /\ total' = total + activities_list[best][2]
                      /\ extras' = extras]_vars

\* C7 witness: cap 18, total 14 after the mandatory and bike passes, a
\* catalog that starts Walk 15 min (2), Stretch (3), Rehab (4): Rehab was
\* appended and the total is 18.
C7_Witness ==
    /\ pc = "append"
    /\ daily_cap = 18
    /\ total = 18
    /\ Len(activities_list) >= 3
    /\ activities_list[1] = <<<<"W", "a", "l", "k", " ", "1", "5", " ", "m", "i", "n">>, 2>>
    /\ activities_list[2] = <<<<"S", "t", "r", "e", "t", "c", "h">>, 3>>
    /\ activities_list[3] = <<<<"R", "e", "h", "a", "b">>, 4>>
    /\ items # << >>
    /\ items[Len(items)] = [name |-> <<"R", "e", "h", "a", "b">>, points |-> 4, recommended |-> TRUE]
    /\ PointsOf(SubSeq(items, 1, Len(items) - 1)) = 14

\* the sum of the points of the catalog entries at the places S
RECURSIVE SumAt(_)
SumAt(S) ==
    IF S = {} THEN 0
    ELSE LET i == CHOOSE x \in S : TRUE
         IN  activities_list[i][2] + SumAt(S \ {i})

\* the largest sum of a subset of the places F that is at most r
MaxSubsetSum(F, r) ==
    LET sums == {SumAt(S) : S \in {X \in SUBSET F : SumAt(X) <= r}}
    IN  CHOOSE m \in sums : \A x \in sums : x <= m

\* the largest points of a single place of F that is at most r, or 0
MaxSingle(F, r) ==
    LET fit == {activities_list[i][2] : i \in {x \in F : activities_list[x][2] <= r}}
    IN  IF fit = {} THEN 0 ELSE CHOOSE m \in fit : \A x \in fit : x <= m

\* the day at the end of the filler pass: its filler entries, the entries
\* that were there before, and the points that remained for the filler
Fillers == SelectSeq(items, IsFillerEntry)

BeforeFiller ==
    LET NotFiller(e) == ~IsFillerEntry(e)
    IN  SelectSeq(items, NotFiller) \o extras

RemainingBeforeFiller == daily_cap - (total - PointsOf(Fillers))

\* C8 as claimed: the filler entries of a day sum to the largest sum of a
\* subset of the filler candidates that is at most remaining.
C8_FillerIsMaxSubsetSum ==
    pc = "append" =>
        PointsOf(Fillers) = MaxSubsetSum(OpenIdx(BeforeFiller), RemainingBeforeFiller)

\* C8 as amended: a day gets at most one filler entry, a candidate that is
\* not excluded, and the filler points are the most a single candidate has
\* within remaining (0 when none fits or nothing remains); this stays within
\* the largest subset sum and can be less.
C8_FillerIsMaxSingleCandidate ==
    pc = "append" =>
        /\ Len(Fillers) <= 1
        /\ \A k \in 1..Len(Fillers) :
              \E i \in OpenIdx(BeforeFiller) : Fillers[k] = FillerEntryOf(i)
        /\ PointsOf(Fillers) = MaxSingle(OpenIdx(BeforeFiller), RemainingBeforeFiller)
        /\ PointsOf(Fillers) <= MaxSubsetSum(OpenIdx(BeforeFiller), RemainingBeforeFiller)

\* C8 witness: candidates of 5, 4 and 3 points and remaining 7: the filler is
\* the 5-point candidate alone, where 4 and 3 would have given 7.
C8_Witness ==
    /\ pc = "append"
    /\ RemainingBeforeFiller = 7
    /\ {activities_list[i][2] : i \in OpenIdx(BeforeFiller)} = {5, 4, 3}
    /\ Cardinality(OpenIdx(BeforeFiller)) = 3
    /\ Len(Fillers) = 1
    /\ Fillers[1].points = 5
    /\ MaxSubsetSum(OpenIdx(BeforeFiller), RemainingBeforeFiller) = 7

\* the entries the filler pass appends to items
AppendedItems == SubSeq(items', Len(items) + 1, Len(items'))

\* C9: the filler pass appends no entry whose name equals, letter case
\* aside, a name already in items or extras, and appends nothing at all when
\* cap - total is 0.
C9_NoTakenNameNoFillerAtZero ==
    [][pc = "filler" =>
          /\ SubSeq(items', 1, Len(items)) = items
          /\ \A k \in 1..Len(AppendedItems) :
                ~NameTaken(AppendedItems[k].name, items \o extras)
          /\ daily_cap - total = 0 => (items' = items /\ total' = total)]_vars

\* C9 witness: a candidate that fits and has more points than the filler
\* chosen was passed over because its name stands in the day's entries in
\* another letter case.
C9_Witness ==
    /\ pc = "append"
    /\ Len(Fillers) = 1
    /\ \E i \in PoolIdx :
          /\ NameTaken(activities_list[i][1], BeforeFiller)
          /\ \A k \in 1..Len(BeforeFiller) : BeforeFiller[k].name # activities_list[i][1]
          /\ activities_list[i][2] <= RemainingBeforeFiller
          /\ activities_list[i][2] > Fillers[1].points

\* some catalog entry matches the filler pattern
SomeMatchesFiller ==
    \E i \in 1..Len(activities_list) : MatchesFiller(activities_list[i])

\* C10: an entry the filler pass appends is a catalog entry that matches the
\* filler pattern whenever some catalog entry matches it, whatever is
\* excluded or too large; when no catalog entry matches, the whole catalog
\* is the pool: a catalog entry that is not excluded and fits is appended.
C10_PoolDecidedByPatternAlone ==
    [][pc = "filler" =>
          /\ \A k \in 1..Len(AppendedItems) :
                \E i \in 1..Len(activities_list) :
                    /\ AppendedItems[k] = FillerEntryOf(i)
                    /\ SomeMatchesFiller => MatchesFiller(activities_list[i])
          /\ (/\ ~SomeMatchesFiller
              /\ daily_cap - total > 0
              /\ \E i \in 1..Len(activities_list) :
                    /\ ~NameTaken(activities_list[i][1], items \o extras)
                    /\ activities_list[i][2] <= daily_cap - total)
             => Len(AppendedItems) = 1]_vars

\* C10 witness: the catalog has entries that match the pattern, none of them
\* fits, an entry that does not match would fit and is not excluded, and the
\* day got no filler.
C10_Witness ==
    /\ pc = "append"
    /\ SomeMatchesFiller
    /\ Fillers = << >>
    /\ RemainingBeforeFiller > 0
    /\ \E i \in 1..Len(activities_list) :
          /\ ~MatchesFiller(activities_list[i])
          /\ ~NameTaken(activities_list[i][1], BeforeFiller)
          /\ activities_list[i][2] <= RemainingBeforeFiller

\* ------------------------------------------------------------------------
\* C14: the daily cap of parse_rules
\* ------------------------------------------------------------------------

\* the lines a rules document is made of here
RuleLines ==
    { <<"D", "a", "i", "l", "y", " ", "T", "o", "t", "a", "l", ":", " ", "1", "8">>, <<"D", "a", "i", "l", "y", " ", "s", "t", "e", "p", "s", " ", "5">>, <<"d", "a", "i", "l", "y", " ", "t", "o", "t", "a", "l", " ", "7">>,
      <<"M", "a", "x", " ", "1", "2", " ", "p", "e", "r", " ", "w", "e", "e", "k">>, <<"D", "a", "i", "l", "y", " ", "T", "o", "t", "a", "l">>, <<"N", "o", " ", "l", "i", "m", "i", "t">>, <<"Y", "e", "a", "r", " ", "2", "0", "2", "6">>,
      <<"D", "A", "I", "L", "Y", " ", "T", "O", "T", "A", "L", " ", "=", " ", "1", "8", "0", "0">> }

MaxRuleLines == 2

\* "\n".join(lines)
RECURSIVE JoinLines(_)
JoinLines(lines) ==
    IF lines = << >> THEN << >>
    ELSE IF Len(lines) = 1 THEN lines[1]
    ELSE lines[1] \o <<"\n">> \o JoinLines(Tail(lines))

RulesDocuments ==
    {MissingFile} \cup {FileOf(JoinLines(ls)) : ls \in BoundedSeq(RuleLines, MaxRuleLines)}

\* generate_plan with any of the rules documents, one catalog and no
\* reservation
RulesInit ==
    \E rules \in RulesDocuments :
        Loaded(rules, << <<<<"S", "t", "r", "e", "t", "c", "h">>, 3>>, <<<<"W", "a", "l", "k", " ", "1", "5">>, 2>> >>, << >>)

RulesSpec == RulesInit /\ [][Next]_vars

RulesText == IF rules_file.exists THEN rules_file.text ELSE << >>

\* the positions of the digits of doc
DigitsAt(doc) == {j \in 1..Len(doc) : IsDigit(doc[j])}

Least(S) == CHOOSE x \in S : \A y \in S : x <= y

\* the integer written at j: all the digits that follow each other from j
WholeNumberAt(doc, j) ==
    LET after == {k \in j..Len(doc) + 1 : k > Len(doc) \/ ~IsDigit(doc[k])}
    IN  int(SubSeq(doc, j, Least(after) - 1))

\* the number of at most three digits that starts at j
ThreeDigitsAt(doc, j) ==
    LET after == {k \in j..j + 3 : k > Len(doc) \/ ~IsDigit(doc[k]) \/ k = j + 3}
    IN  int(SubSeq(doc, j, Least(after) - 1))

\* the digits that follow, on its own line, the word that ends before p
DigitsOnLineFrom(doc, p) ==
    {j \in DigitsAt(doc) : j >= p /\ \A k \in p..j : doc[k] # "\n"}

\* the places where word stands in doc, in any letter case, with a digit
\* after it on its line
WordWithNumber(doc, word) ==
    {i \in 1..Len(doc) :
        /\ i + Len(word) - 1 <= Len(doc)
        /\ lower(SubSeq(doc, i, i + Len(word) - 1)) = word
        /\ DigitsOnLineFrom(doc, i + Len(word)) # {}}

\* C14 as stated: the cap is the integer of the "Daily Total ... N" pattern
\* when the document has one, otherwise the first integer of the document,
\* and 18 when the document has no integer or is missing; it has at most
\* three digits.
C14_DailyTotalThenFirstInteger ==
    LET doc  == RulesText
        whole == WordWithNumber(doc, <<"d", "a", "i", "l", "y", " ", "t", "o", "t", "a", "l">>)
    IN  /\ daily_cap \in 0..999
        /\ daily_cap =
              IF whole # {}
              THEN WholeNumberAt(doc, Least(DigitsOnLineFrom(doc, Least(whole) + 11)))
              ELSE IF DigitsAt(doc) # {}
              THEN WholeNumberAt(doc, Least(DigitsAt(doc)))
              ELSE 18

\* C14: the cap is the number of at most three digits that starts at the
\* first digit after the first "Daily", in any letter case, that has a digit
\* after it on its line; without such a "Daily", the number of at most three
\* digits that starts at the first digit of the document; and 18 when the
\* document has no digit or is missing. It is between 0 and 999.
C14_DailyThenFirstDigits ==
    LET doc  == RulesText
        daily == WordWithNumber(doc, <<"d", "a", "i", "l", "y">>)
    IN  /\ daily_cap \in 0..999
        /\ daily_cap =
              IF daily # {}
              THEN ThreeDigitsAt(doc, Least(DigitsOnLineFrom(doc, Least(daily) + 5)))
              ELSE IF DigitsAt(doc) # {}
              THEN ThreeDigitsAt(doc, Least(DigitsAt(doc)))
              ELSE 18

\* C14 witness: a plan is written under the cap 5 of "Daily steps 5", the
\* line before the "Daily Total: 18" line.
C14_Witness ==
    /\ pc = "done"
    /\ rules_file = FileOf(<<"D", "a", "i", "l", "y", " ", "s", "t", "e", "p", "s", " ", "5">> \o <<"\n">> \o <<"D", "a", "i", "l", "y", " ", "T", "o", "t", "a", "l", ":", " ", "1", "8">>)
    /\ daily_cap = 5

\* ------------------------------------------------------------------------
\* C11, C12: compute_points
\* ------------------------------------------------------------------------

\* the event names, locations and lengths compute_points is applied to
ClassifyNames ==
    { <<"S", "u", "n", "r", "i", "s", "e", " ", "Y", "o", "g", "a">>, <<"P", "i", "c", "k", "l", "e", "b", "a", "l", "l", " ", "O", "p", "e", "n", " ", "P", "l", "a", "y">>, <<"1", "8", " ", "H", "o", "l", "e", "s", " ", "G", "o", "l", "f">>,
      <<"9", " ", "H", "o", "l", "e", "s", " ", "G", "o", "l", "f">>, <<"G", "o", "l", "f", " ", "R", "a", "n", "g", "e">>, <<"B", "o", "c", "c", "e">>, <<"M", "e", "d", "i", "t", "a", "t", "i", "o", "n">>,
      <<"P", "i", "l", "a", "t", "e", "s">>, <<"L", "i", "n", "e", " ", "D", "a", "n", "c", "i", "n", "g">>, <<"T", "e", "n", "n", "i", "s", " ", "B", "o", "c", "c", "e">>, <<"M", "a", "s", "s", "a", "g", "e">>,
      <<"H", "a", "i", "r", "c", "u", "t">>, <<"B", "o", "c", "c", "e", " ", "M", "e", "d", "i", "t", "a", "t", "i", "o", "n">>, <<"G", "o", "l", "f", " ", "R", "a", "n", "g", "e", " ", "1", "8", " ", "H", "o", "l", "e", "s">> }

ClassifyLocations == { <<"S", "p", "a">>, <<"C", "l", "u", "b", " ", ">", " ", "C", "o", "u", "r", "t", " ", "S", "p", "o", "r", "t", "s">> }

ClassifyLengths == { <<"6", "0", " ", "M", "i", "n", "u", "t", "e", "s">>, <<"1", "0", " ", "M", "i", "n", "u", "t", "e", "s">>, <<"9", "0", " ", "M", "i", "n", "u", "t", "e", "s">> }

\* catalogs with keys that are substrings of the names: one with the same
\* key twice and a key for an event of the built-in rules, one where a
\* shorter key stands before the longer one, and the empty catalog
ClassifyCatalogs ==
    { << <<<<"M", "a", "s", "s", "a", "g", "e">>, 12>>, <<<<"m", "a", "s", "s", "a", "g", "e">>, 7>>, <<<<"P", "i", "c", "k", "l", "e", "b", "a", "l", "l">>, 9>>, <<<<"Y", "o", "g", "a">>, 1>> >>,
      << <<<<"M", "e", "d", "i", "t", "a", "t", "i", "o", "n">>, 9>>, <<<<"A", "g", "e">>, 2>>, <<<<"M", "a", "s", "s", "a", "g", "e">>, 12>>, <<<<"1", "8", " ", "H", "o", "l", "e", "s">>, 0>> >>,
      << >> }

\* generate_plan with one reservation of the first day
ClassifyInit ==
    \E name \in ClassifyNames, location \in ClassifyLocations,
       length \in ClassifyLengths, catalog \in ClassifyCatalogs :
        Loaded(MissingFile, catalog,
               <<Reservation(<<"1", "/", "1", "2", "/", "2", "0", "2", "6", ",", " ", "9", ":", "0", "0", " ", "A", "M">>, name, location, length)>>)

ClassifySpec == ClassifyInit /\ [][Next]_vars

\* the entries compute_points has given points to
ClassifiedEntries ==
    UNION {{reservations_by_date[dt][i] : i \in 1..Len(reservations_by_date[dt])} :
              dt \in DOMAIN reservations_by_date}

\* the built-in rules in the order of the claim, each with whether it
\* matches the entry and the points it gives
BuiltInRules(e) ==
    LET n == lower(e.name)
    IN  << [hit |-> re_search(GroupFitnessPattern \cup LineDancePattern, n), pts |-> 5],
           [hit |-> re_search(PersonalTrainingPattern, n), pts |-> 5],
           [hit |-> re_search(CourtSportPattern, n)
                       \/ Contains(<<"c", "o", "u", "r", "t", " ", "s", "p", "o", "r", "t", "s">>, lower(e.location)),
            pts |-> IF e.duration_minutes \div 15 < 4 THEN e.duration_minutes \div 15 ELSE 4],
           [hit |-> re_search(GolfRangePattern, n), pts |-> 1],
           [hit |-> re_search(NineHolesPattern, n), pts |-> 2],
           [hit |-> re_search(EighteenHolesPattern, n), pts |-> 4],
           [hit |-> re_search(BoccePattern, n), pts |-> 1],
           [hit |-> re_search(BonusEventPattern, n), pts |-> 3] >>

\* the rules of a rule list that match
RulesHit(rules) == {k \in 1..Len(rules) : rules[k].hit}

\* the catalog lines whose lower-cased name is a substring of the entry's
\* lower-cased name
CatalogHits(e) ==
    {i \in 1..Len(activities_list) : Contains(lower(activities_list[i][1]), lower(e.name))}

\* the points the catalog has for the key of line i: those of the last line
\* with that key
CatalogValue(i) ==
    LET same == {j \in 1..Len(activities_list) :
                    lower(activities_list[j][1]) = lower(activities_list[i][1])}
    IN  activities_list[CHOOSE j \in same : \A k \in same : k <= j][2]

\* C11 as stated: an event named "Sunrise Yoga" gets the 3 points of a bonus
\* event, whatever its location, its duration and the catalog.
C11_SunriseYogaIsBonusEvent ==
    \A e \in ClassifiedEntries : e.name = <<"S", "u", "n", "r", "i", "s", "e", " ", "Y", "o", "g", "a">> => e.points = 3

\* C12: the points of an event are those of the first built-in rule that
\* matches it, in the order group fitness, personal training, court sports,
\* golf range, 9 holes, 18 holes, bocce, bonus events; the catalog decides
\* only when no rule matches, by its first key that is a substring of the
\* lower-cased name; and the points are 1 when the catalog has no such key.
\* "Pickleball Open Play" of 60 minutes has 4 points and "18 Holes Golf",
\* away from the court sports, has 4 points for every duration.
C12_FirstRuleThenCatalogThenOne ==
    \A e \in ClassifiedEntries :
        \A rules \in {BuiltInRules(e)} :
        \A hit \in {RulesHit(rules)} :
        \A cat \in {IF hit = {} THEN CatalogHits(e) ELSE {}} :
            /\ hit # {} => e.points = rules[Least(hit)].pts
            /\ hit = {} /\ cat # {} => e.points = CatalogValue(Least(cat))
            /\ hit = {} /\ cat = {} => e.points = 1
            /\ e.name = <<"P", "i", "c", "k", "l", "e", "b", "a", "l", "l", " ", "O", "p", "e", "n", " ", "P", "l", "a", "y">> /\ e.duration_minutes = 60 => e.points = 4
            /\ e.name = <<"1", "8", " ", "H", "o", "l", "e", "s", " ", "G", "o", "l", "f">> /\ ~Contains(<<"c", "o", "u", "r", "t", " ", "s", "p", "o", "r", "t", "s">>, lower(e.location))
                  => e.points = 4

\* C12 witness: a plan is written where "Pickleball Open Play" of 90 minutes
\* has the 4 points of the capped court-sport rule although the catalog has
\* 9 points for "pickleball".
C12_Witness ==
    /\ pc = "done"
    /\ \E i \in 1..Len(activities_map) : activities_map[i] = <<<<"p", "i", "c", "k", "l", "e", "b", "a", "l", "l">>, 9>>
    /\ \E e \in ClassifiedEntries :
          /\ e.name = <<"P", "i", "c", "k", "l", "e", "b", "a", "l", "l", " ", "O", "p", "e", "n", " ", "P", "l", "a", "y">>
          /\ e.duration_minutes = 90
          /\ e.points = 4

\* ------------------------------------------------------------------------
\* C13, C17: the reservation records and the days they reach
\* ------------------------------------------------------------------------

\* a record without the key "Length"
ReservationNoLength(dt_str, event, location) ==
    ("Date & Time" :> dt_str) @@ ("Event" :> event) @@ ("Location" :> location)

\* records with dates inside and outside the challenge, a date that does not
\* match, a date that is no calendar date, a length without a number, no
\* length and an empty event
RecordPool ==
    { Reservation(<<"1", "/", "1", "2", "/", "2", "0", "2", "6", ",", " ", "9", ":", "0", "0", " ", "A", "M">>, <<"G", "y", "m", " ", "S", "t", "r", "e", "n", "g", "t", "h">>, <<"C", "l", "u", "b", " ", ">", " ", "G", "y", "m">>, <<"6", "0", " ", "M", "i", "n", "u", "t", "e", "s">>),
      Reservation(<<"1", "/", "1", "2", "/", "2", "0", "2", "6", ",", " ", "1", ":", "0", "0", " ", "P", "M">>, <<"9", " ", "H", "o", "l", "e", "s", " ", "G", "o", "l", "f">>, <<"G", "o", "l", "f">>, <<"1", "2", "0", " ", "M", "i", "n", "u", "t", "e", "s">>),
      Reservation(<<"J", "a", "n", " ", "1", "2", " ", "2", "0", "2", "6", " ", "9", "a", "m">>, <<"B", "o", "c", "c", "e">>, <<"L", "a", "w", "n">>, <<"4", "5", " ", "M", "i", "n", "u", "t", "e", "s">>),
      Reservation(<<"1", "/", "1", "1", "/", "2", "0", "2", "6", ",", " ", "9", ":", "0", "0", " ", "A", "M">>, <<"P", "i", "l", "a", "t", "e", "s">>, <<"S", "t", "u", "d", "i", "o">>, <<"5", "5", " ", "M", "i", "n", "u", "t", "e", "s">>),
      Reservation(<<"2", "/", "1", "6", "/", "2", "0", "2", "6", ",", " ", "5", ":", "0", "0", " ", "P", "M">>, <<"M", "e", "d", "i", "t", "a", "t", "i", "o", "n">>, <<"S", "p", "a">>, <<"2", "0", " ", "M", "i", "n", "u", "t", "e", "s">>),
      Reservation(<<"2", "/", "1", "5", "/", "2", "0", "2", "6", ",", " ", "8", ":", "0", "0", " ", "A", "M">>, <<"T", "e", "n", "n", "i", "s">>, <<"C", "l", "u", "b", " ", ">", " ", "C", "o", "u", "r", "t", " ", "S", "p", "o", "r", "t", "s">>, <<"T", "B", "D">>),
      ReservationNoLength(<<"1", "/", "1", "2", "/", "2", "0", "2", "6", ",", " ", "3", ":", "0", "0", " ", "P", "M">>, <<"P", "i", "c", "k", "l", "e", "b", "a", "l", "l", " ", "O", "p", "e", "n", " ", "P", "l", "a", "y">>, <<"C", "l", "u", "b", " ", ">", " ", "C", "o", "u", "r", "t", " ", "S", "p", "o", "r", "t", "s">>),
      Reservation(<<"1", "/", "1", "3", "/", "2", "0", "2", "6", ",", " ", "1", "0", ":", "0", "0", " ", "A", "M">>, << >>, <<"C", "l", "u", "b", " ", ">", " ", "S", "p", "a", " ">>, <<"5", "0", " ", "M", "i", "n", "u", "t", "e", "s">>),
      Reservation(<<"2", "/", "3", "0", "/", "2", "0", "2", "6", ",", " ", "9", ":", "0", "0", " ", "A", "M">>, <<"B", "o", "c", "c", "e">>, <<"L", "a", "w", "n">>, <<"4", "5", " ", "M", "i", "n", "u", "t", "e", "s">>) }

\* generate_plan with these records, under the caps 18 and 4
RecordInit ==
    \E rules \in {MissingFile, FileOf(<<"D", "a", "i", "l", "y", " ", "c", "a", "p", " ", "4", " ", "p", "t", "s">>)},
       list \in BoundedSeq(RecordPool, MaxReservations) :
        Loaded(rules, << <<<<"S", "t", "r", "e", "t", "c", "h">>, 3>>, <<<<"W", "a", "l", "k", " ", "1", "5">>, 2>> >>, list)

RecordSpec == RecordInit /\ [][Next]_vars

\* the date of record i of the list, or None
DateOfRecord(i) == parse_reservation_datetime(get(reservations[i], "Date & Time", << >>)).dt

InChallenge(dt) == dt # None /\ DateLeq(start_date, dt) /\ DateLeq(dt, end_date)

\* the parser extracts every field of the record: its date matches, its
\* length holds a number and its event is not empty
Extractable(res) ==
    /\ parse_reservation_datetime(get(res, "Date & Time", << >>)).dt # None
    /\ "Length" \in DOMAIN res
    /\ \E k \in 1..Len(res["Length"]) : IsDigit(res["Length"][k])
    /\ "Event" \in DOMAIN res
    /\ res["Event"] # << >>

\* C13 as stated: every entry grouped under a date comes from a record all
\* of whose fields were extracted, with the name and the duration the record
\* holds; a record with a date that does not match, a length without a
\* number, no length or an empty event gives no entry.
C13_NoDefaultedField ==
    pc \notin {"group", "raised"} =>
        \A e \in ClassifiedEntries :
            \E i \in 1..Len(reservations) :
                /\ Extractable(reservations[i])
                /\ e.name = reservations[i]["Event"]
                /\ e.duration_minutes = int(FirstDigits(reservations[i]["Length"]))

\* the events of a date: the entries of the records with that date, in the
\* order of the list
EventsOn(dt) ==
    LET S == {i \in 1..Len(reservations) : DateOfRecord(i) = dt}
    IN  [k \in 1..Cardinality(S) |->
            ReservationEntry(reservations[Kth(S, k)], activities_map)]

\* the DayPlan holds the events of its date and of no other date: they are
\* its mandatory entries, in list order in items and in extras, and the
\* points of those in items are the running total of these events alone
DayHoldsItsEvents(dayplan, dt) ==
    \A ev \in {EventsOn(dt)} :
        /\ StablePartition(ev, dayplan.items, dayplan.extras)
        /\ PointsOf(SelectSeq(dayplan.items, IsMandatoryEntry))
              = RunningTotal(ev, daily_cap)[Len(ev)]

\* C17: each DayPlan, when it is appended and in the finished plan, holds as
\* mandatory entries exactly the reservations whose date is its date, in the
\* order of the list; a reservation dated outside the challenge is in no
\* DayPlan and adds to no total.
C17_ReservationOnItsDateOnly ==
    /\ AfterAPass => DayHoldsItsEvents([items |-> items, extras |-> extras], d)
    /\ PlanFinished =>
          \A i \in 1..Len(plan.daily) :
              DayHoldsItsEvents(plan.daily[i], ChallengeDate(i))

\* C17 witness: the plan is finished for a list with a reservation dated
\* outside the challenge before one dated inside it; the day of the second
\* holds it and no other day holds a reservation.
C17_Witness ==
    /\ pc = "done"
    /\ \E a, b \in 1..Len(reservations) :
          /\ a < b
          /\ DateOfRecord(a) # None /\ ~InChallenge(DateOfRecord(a))
          /\ InChallenge(DateOfRecord(b))
          /\ \A i \in 1..Len(plan.daily) :
                SelectSeq(plan.daily[i].items \o plan.daily[i].extras, IsMandatoryEntry)
                    = IF ChallengeDate(i) = DateOfRecord(b)
                      THEN <<AcceptedEntry(ReservationEntry(reservations[b], activities_map))>>
                      ELSE << >>

\* ------------------------------------------------------------------------
\* C15, C16: what materialize_schedule appends to log.txt
\* ------------------------------------------------------------------------

\* the date in the first line "Date: YYYY-MM-DD" of a block
BlockDate(block) == ParseIso(SubSeq(block, 7, 16))

\* the lines of a text, without their line breaks
LinesOf(s) ==
    {SubSeq(s, p, Least({e \in p..Len(s) + 1 : e > Len(s) \/ s[e] = "\n"}) - 1) :
        p \in LineStarts(s)}

\* the text has a line "Date: iso", whatever blanks stand after the colon and
\* at the end of the line
HasDateLine(s, iso) ==
    \E line \in LinesOf(s) :
        /\ Len(line) >= 5
        /\ SubSeq(line, 1, 5) = <<"D", "a", "t", "e", ":">>
        /\ strip(SubSeq(line, 6, Len(line))) = iso

\* every block of to_add is for a date of the range that is not before today
\* and has no "Date:" line in the text read, and the blocks are in ascending
\* order of their dates, one block for a date
BlocksForNewDates ==
    \A k \in 1..Len(to_add) :
        \A dt \in {BlockDate(to_add[k])} :
            /\ SubSeq(to_add[k], 1, 16) = <<"D", "a", "t", "e", ":", " ">> \o isoformat(dt)
            /\ DateLeq(start, dt) /\ DateLeq(dt, end)
            /\ DateLeq(today, dt)
            /\ ~HasDateLine(text, isoformat(dt))
            /\ k > 1 => DateLt(BlockDate(to_add[k - 1]), dt)

\* log.txt changes only by the blocks of to_add being appended to a file
\* that exists
OnlyAppended ==
    log' # log =>
        /\ log.exists /\ log'.exists
        /\ to_add # << >>
        /\ log'.text = log.text \o <<"\n">> \o Concat(to_add)

\* C15: log.txt only ever grows at its end, by the blocks of to_add, and a
\* missing log.txt stays missing; a block is appended only for a date of
\* [start, end] that has no "Date:" line in log.txt and is not before today,
\* at most one block for a date, in ascending order of the dates.
C15_AppendOnlyNewFutureDates ==
    []BlocksForNewDates /\ [][OnlyAppended]_vars

\* C15 witness: the run is over; log.txt held text with the "Date:" line of
\* a date of the range, and it now is that text followed by the blocks of
\* the other dates.
C15_Witness ==
    /\ mpc = "done"
    /\ text # << >>
    /\ Len(to_add) >= 2
    /\ log = FileOf(text \o <<"\n">> \o Concat(to_add))
    /\ \E n \in 0..MaxRangeDays :
          /\ DateLeq(DaysAfter(start, n), end)
          /\ HasDateLine(text, isoformat(DaysAfter(start, n)))

\* the occurrences of the schedule that fall on the weekday of dt
OccurrencesOn(dt) ==
    UNION {{<<i, j>> : j \in {k \in 1..Len(sch.events[i].occurrences) :
                                  WeekdayIs(sch.events[i].occurrences[k].weekday, weekday(dt))}} :
              i \in 1..Len(sch.events)}

\* the sum of the points of the events of a set of occurrences
RECURSIVE SumOfPoints(_)
SumOfPoints(S) ==
    IF S = {} THEN 0
    ELSE LET o == CHOOSE x \in S : TRUE
         IN  sch.events[o[1]].points + SumOfPoints(S \ {o})

DailyTotalLabel == <<"D", "a", "i", "l", "y", " ", "T", "o", "t", "a", "l", " ", "(", "a", "c", "t", "i", "v", "i", "t", "y", " ", "p", "o", "i", "n", "t", "s", ")", ":", " ">>

\* the number written after "Daily Total (activity points): " in a block
WrittenTotal(block) ==
    LET at == {i \in 1..Len(block) - Len(DailyTotalLabel) :
                  SubSeq(block, i, i + Len(DailyTotalLabel) - 1) = DailyTotalLabel}
        i  == Least(at) + Len(DailyTotalLabel)
    IN  int(SubSeq(block, i, i + DigitRun(block, i, Len(block)) - 1))

\* C16 as stated: the Daily Total written in a block for a date with
\* scheduled occurrences is the sum of the points of the events listed in
\* the block, one term for each occurrence on that weekday.
C16_DailyTotalIsSumOfPoints ==
    \A k \in 1..Len(to_add) :
        \A occs \in {OccurrencesOn(BlockDate(to_add[k]))} :
            occs # {} => WrittenTotal(to_add[k]) = SumOfPoints(occs)

=============================================================================
